---- MODULE Spec2Model ----
(***************************************************************************)
(* Model of time_utilities.h (C free functions on struct timespec and      *)
(* struct timeval) and time_utilities.hpp (the CTimeSpec and CTimeVal      *)
(* value classes).                                                         *)
(*                                                                         *)
(* A struct timespec is the record [tv_sec, tv_nsec]; a struct timeval is  *)
(* the record [tv_sec, tv_usec].  A CTimeSpec / CTimeVal object is         *)
(* modelled by the struct it wraps (its only data member).                 *)
(*                                                                         *)
(* TLC integers are 32 bits wide.  time_t and long are at least that wide, *)
(* so every input below is chosen so that no intermediate leaves the       *)
(* 32-bit range; within that range the C arithmetic is exact.              *)
(***************************************************************************)
EXTENDS Integers, Sequences, FiniteSets, TLC

(***************************************************************************)
(* Program constants.                                                      *)
(***************************************************************************)
NS_IN_SECOND == 1000000000

US_IN_SECOND == 1000000

MS_IN_SECOND == 1000

NS_IN_MS == 1000 * 1000

US_IN_MS == 1000

(***************************************************************************)
(* Bounds of the model.                                                    *)
(***************************************************************************)
\* seconds fields of the inputs range over -MaxSec .. MaxSec
MaxSec == 2

\* raw microsecond inputs are up to MaxWraps multiples of US_IN_SECOND away
\* from [0, US_IN_SECOND)
MaxWraps == 3

\* millisecond inputs range over 0 .. MaxMs (and a few large samples)
MaxMs == 2100

\* number of operations applied to the objects of ObjSpec
MaxSteps == 4

(***************************************************************************)
(* Input sets.                                                             *)
(***************************************************************************)
SecValues == (0 - MaxSec) .. MaxSec

\* fractional fields inside [0, SCALE)
NsecInRange == {0, 1, 2, 500000000, NS_IN_SECOND - 2, NS_IN_SECOND - 1}

UsecInRange == {0, 1, 2, 500000, US_IN_SECOND - 2, US_IN_SECOND - 1}

\* raw nanosecond fields: up to two multiples of NS_IN_SECOND out of range
\* in either direction (the widest a 32-bit long can hold), with the
\* values of the unit tests
NsecRaw ==
    NsecInRange \cup
    { 0 - 2147483647, 0 - 2000000000, 0 - 1000000001, 0 - 1000000000,
      0 - 999999999, 0 - 1000, 0 - 999, 0 - 1,
      999, 1000, 123456789, 1000000000, 1000000001, 1999999999,
      2000000000, 2147483647 }

\* raw microsecond fields: k * US_IN_SECOND + r for |k| <= MaxWraps, with
\* the values of the unit tests
UsecRaw ==
    UsecInRange \cup
    { k * US_IN_SECOND + r :
        k \in (0 - MaxWraps) .. MaxWraps, r \in {0, 1, US_IN_SECOND - 1} }
    \cup { 0 - 2147483, 2147483, 123456 }

TimespecNormalized == [tv_sec : SecValues, tv_nsec : NsecInRange]

TimevalNormalized == [tv_sec : SecValues, tv_usec : UsecInRange]

TimespecRaw == [tv_sec : SecValues, tv_nsec : NsecRaw]

TimevalRaw == [tv_sec : SecValues, tv_usec : UsecRaw]

\* operands of the C add / subtract / compare functions: the normalized
\* values and values one multiple of SCALE out of range
NsecOperand ==
    NsecInRange \cup {0 - 1000000000, 0 - 1, 1000000000, 1000000001}

UsecOperand ==
    UsecInRange \cup {0 - 1000000, 0 - 1, 1000000, 1000001}

TimespecOperand == [tv_sec : SecValues, tv_nsec : NsecOperand]

TimevalOperand == [tv_sec : SecValues, tv_usec : UsecOperand]

\* raw timevals whose tv_usec * 1000 fits 32 bits
TimevalRawScalable ==
    { tv \in TimevalRaw : 0 - 2147483 <= tv.tv_usec /\ tv.tv_usec <= 2147483 }

\* outcomes of one clock read: the status and the pair the source holds
ClockReads == [rc : {0, 0 - 1}, ts : TimespecRaw]

\* contents of a buffer no read has filled
Indeterminate ==
    { [tv_sec |-> 0, tv_nsec |-> 0],
      [tv_sec |-> 1, tv_nsec |-> 0 - 1],
      [tv_sec |-> 0 - 1, tv_nsec |-> 1999999999],
      [tv_sec |-> 2, tv_nsec |-> 2147483647] }

\* the raw timespecs TestConversions constructs CTimeVal objects from
TestConversionsTimespec ==
    { [tv_sec |-> 12, tv_nsec |-> 1999999999],
      [tv_sec |-> 33, tv_nsec |-> 0 - 999],
      [tv_sec |-> 12, tv_nsec |-> 0 - 1000] }

\* unsigned int ms
MsValues == (0 .. MaxMs) \cup {99999, 2147483}

\* int ms
IntMsValues == MsValues \cup {0 - ms : ms \in MsValues}

(***************************************************************************)
(* The two loops of every normalization in the sources: the carry loop     *)
(* `while (frac >= SCALE) { sec++; frac -= SCALE; }' followed by the       *)
(* borrow loop `while (frac < 0) { sec--; frac += SCALE; }'.  Both return  *)
(* the pair <<sec, frac>> the loop leaves behind.                          *)
(***************************************************************************)
\* fault: the carry as a single `if' instead of a loop
CarryLoop_once(sec, frac, scale) ==
    IF frac >= scale
    THEN <<sec + 1, frac - scale>>
    ELSE <<sec, frac>>

RECURSIVE CarryLoop(_, _, _)
CarryLoop(sec, frac, scale) ==
    IF frac >= scale
    THEN CarryLoop(sec + 1, frac - scale, scale)
    ELSE <<sec, frac>>

\* fault: the borrow loop testing `<= 0'
RECURSIVE BorrowLoop_inclusive(_, _, _)
BorrowLoop_inclusive(sec, frac, scale) ==
    IF frac <= 0
    THEN BorrowLoop_inclusive(sec - 1, frac + scale, scale)
    ELSE <<sec, frac>>

RECURSIVE BorrowLoop(_, _, _)
BorrowLoop(sec, frac, scale) ==
    IF frac < 0
    THEN BorrowLoop(sec - 1, frac + scale, scale)
    ELSE <<sec, frac>>

\* the number of times the body of the carry loop runs
RECURSIVE CarryIterations(_, _)
CarryIterations(frac, scale) ==
    IF frac >= scale
    THEN 1 + CarryIterations(frac - scale, scale)
    ELSE 0

\* the number of times the body of the borrow loop runs
RECURSIVE BorrowIterations(_, _)
BorrowIterations(frac, scale) ==
    IF frac < 0
    THEN 1 + BorrowIterations(frac + scale, scale)
    ELSE 0

NormalizeLoops(sec, frac, scale) ==
    LET c == CarryLoop(sec, frac, scale)
    IN  BorrowLoop(c[1], c[2], scale)

Timespec(p) == [tv_sec |-> p[1], tv_nsec |-> p[2]]

Timeval(p) == [tv_sec |-> p[1], tv_usec |-> p[2]]

(***************************************************************************)
(* time_utilities.h: normalization.                                        *)
(***************************************************************************)
\* fault: timespec_normalize without its carry loop
timespec_normalize_nocarry(ts) ==
    Timespec(BorrowLoop(ts.tv_sec, ts.tv_nsec, NS_IN_SECOND))

timespec_normalize(ts) ==
    Timespec(NormalizeLoops(ts.tv_sec, ts.tv_nsec, NS_IN_SECOND))

timeval_normalize(tv) ==
    Timeval(NormalizeLoops(tv.tv_sec, tv.tv_usec, US_IN_SECOND))

(***************************************************************************)
(* C integer division and remainder: the quotient truncates toward zero    *)
(* and the remainder takes the sign of the dividend.                       *)
(***************************************************************************)
CDiv(x, y) ==
    IF x >= 0 THEN x \div y ELSE 0 - ((0 - x) \div y)

CRem(x, y) == x - CDiv(x, y) * y

(***************************************************************************)
(* time_utilities.h: arithmetic, milliseconds, comparison.                 *)
(***************************************************************************)
\* fault: timespec_add without the carry step
timespec_add_nocarry(addend_a, addend_b) ==
    [tv_sec |-> addend_a.tv_sec + addend_b.tv_sec,
     tv_nsec |-> addend_a.tv_nsec + addend_b.tv_nsec]

timespec_add(addend_a, addend_b) ==
    LET sec == addend_a.tv_sec + addend_b.tv_sec
        nsec == addend_a.tv_nsec + addend_b.tv_nsec
    IN  IF nsec >= NS_IN_SECOND
        THEN [tv_sec |-> sec + 1, tv_nsec |-> nsec - NS_IN_SECOND]
        ELSE [tv_sec |-> sec, tv_nsec |-> nsec]

\* fault: timespec_subtract without the borrow step
timespec_subtract_noborrow(minuend, subtrahend) ==
    [tv_sec |-> minuend.tv_sec - subtrahend.tv_sec,
     tv_nsec |-> minuend.tv_nsec - subtrahend.tv_nsec]

timespec_subtract(minuend, subtrahend) ==
    LET sec == minuend.tv_sec - subtrahend.tv_sec
        nsec == minuend.tv_nsec - subtrahend.tv_nsec
    IN  IF nsec < 0
        THEN [tv_sec |-> sec - 1, tv_nsec |-> nsec + NS_IN_SECOND]
        ELSE [tv_sec |-> sec, tv_nsec |-> nsec]

\* fault: timespec_from_ms dividing with floor and a non-negative remainder
timespec_from_ms_floor(ms) ==
    [tv_sec |-> ms \div MS_IN_SECOND,
     tv_nsec |-> (ms % MS_IN_SECOND) * NS_IN_MS]

timespec_from_ms(ms) ==
    [tv_sec |-> CDiv(ms, MS_IN_SECOND),
     tv_nsec |-> CRem(ms, MS_IN_SECOND) * NS_IN_MS]

timespec_compare(a, b) ==
    IF a.tv_sec > b.tv_sec THEN 1
    ELSE IF a.tv_sec < b.tv_sec THEN 0 - 1
    ELSE IF a.tv_nsec > b.tv_nsec THEN 1
    ELSE IF a.tv_nsec < b.tv_nsec THEN 0 - 1
    ELSE 0

\* fault: timeval_add carrying on `>' instead of `>='
timeval_add_strict(addend_a, addend_b) ==
    LET sec == addend_a.tv_sec + addend_b.tv_sec
        usec == addend_a.tv_usec + addend_b.tv_usec
    IN  IF usec > US_IN_SECOND
        THEN [tv_sec |-> sec + 1, tv_usec |-> usec - US_IN_SECOND]
        ELSE [tv_sec |-> sec, tv_usec |-> usec]

timeval_add(addend_a, addend_b) ==
    LET sec == addend_a.tv_sec + addend_b.tv_sec
        usec == addend_a.tv_usec + addend_b.tv_usec
    IN  IF usec >= US_IN_SECOND
        THEN [tv_sec |-> sec + 1, tv_usec |-> usec - US_IN_SECOND]
        ELSE [tv_sec |-> sec, tv_usec |-> usec]

\* fault: timeval_subtract that also carries
timeval_subtract_carrying(minuend, subtrahend) ==
    LET sec == minuend.tv_sec - subtrahend.tv_sec
        usec == minuend.tv_usec - subtrahend.tv_usec
    IN  IF usec < 0
        THEN [tv_sec |-> sec - 1, tv_usec |-> usec + US_IN_SECOND]
        ELSE IF usec >= US_IN_SECOND
        THEN [tv_sec |-> sec + 1, tv_usec |-> usec - US_IN_SECOND]
        ELSE [tv_sec |-> sec, tv_usec |-> usec]

timeval_subtract(minuend, subtrahend) ==
    LET sec == minuend.tv_sec - subtrahend.tv_sec
        usec == minuend.tv_usec - subtrahend.tv_usec
    IN  IF usec < 0
        THEN [tv_sec |-> sec - 1, tv_usec |-> usec + US_IN_SECOND]
        ELSE [tv_sec |-> sec, tv_usec |-> usec]

timeval_from_ms(ms) ==
    [tv_sec |-> CDiv(ms, MS_IN_SECOND),
     tv_usec |-> CRem(ms, MS_IN_SECOND) * US_IN_MS]

\* fault: timeval_compare that ignores tv_usec
timeval_compare_secs_only(a, b) ==
    IF a.tv_sec > b.tv_sec THEN 1
    ELSE IF a.tv_sec < b.tv_sec THEN 0 - 1
    ELSE 0

timeval_compare(a, b) ==
    IF a.tv_sec > b.tv_sec THEN 1
    ELSE IF a.tv_sec < b.tv_sec THEN 0 - 1
    ELSE IF a.tv_usec > b.tv_usec THEN 1
    ELSE IF a.tv_usec < b.tv_usec THEN 0 - 1
    ELSE 0

(***************************************************************************)
(* time_utilities.h: conversion between the two resolutions.               *)
(***************************************************************************)
\* fault: timespec_to_timeval that rounds to the nearest microsecond
timespec_to_timeval_rounding(ts) ==
    [tv_sec |-> ts.tv_sec, tv_usec |-> CDiv(ts.tv_nsec + 500, 1000)]

timespec_to_timeval(ts) ==
    [tv_sec |-> ts.tv_sec, tv_usec |-> CDiv(ts.tv_nsec, 1000)]

\* fault: timeval_to_timespec that copies tv_usec unscaled
timeval_to_timespec_unscaled(tv) ==
    [tv_sec |-> tv.tv_sec, tv_nsec |-> tv.tv_usec]

timeval_to_timespec(tv) ==
    [tv_sec |-> tv.tv_sec, tv_nsec |-> tv.tv_usec * 1000]

(***************************************************************************)
(* The clock source.  clk is what one read would deliver: the status rc    *)
(* and, when rc = 0, the pair ts stored through the pointer.  A failed     *)
(* read stores nothing: the buffer keeps the contents buf it had before,   *)
(* which for a local `struct timespec ts;' is an indeterminate value.  The *)
(* three clock ids differ only in the source queried.                      *)
(***************************************************************************)
clock_gettime(clk, buf) ==
    [rc |-> clk.rc, ts |-> IF clk.rc = 0 THEN clk.ts ELSE buf]

(***************************************************************************)
(* time_utilities.h: the `now' functions.  The result records the status   *)
(* returned, the caller's variable after the call and whether the call     *)
(* stored a value into it.                                                 *)
(***************************************************************************)
timespec_now(clk, ts) ==
    LET r == clock_gettime(clk, ts)
    IN  [has_status |-> TRUE, rc |-> r.rc, val |-> r.ts,
         produced |-> r.rc = 0]

timespec_now_monotonic(clk, ts) ==
    LET r == clock_gettime(clk, ts)
    IN  [has_status |-> TRUE, rc |-> r.rc, val |-> r.ts,
         produced |-> r.rc = 0]

timespec_now_monotonic_raw(clk, ts) ==
    LET r == clock_gettime(clk, ts)
    IN  [has_status |-> TRUE, rc |-> r.rc, val |-> r.ts,
         produced |-> r.rc = 0]

\* garbage: the uninitialized local ts
timeval_now(clk, garbage) ==
    LET r == clock_gettime(clk, garbage)
    IN  [has_status |-> TRUE, rc |-> r.rc, val |-> timespec_to_timeval(r.ts),
         produced |-> TRUE]

timeval_now_monotonic(clk, garbage) ==
    LET r == clock_gettime(clk, garbage)
    IN  [has_status |-> TRUE, rc |-> r.rc, val |-> timespec_to_timeval(r.ts),
         produced |-> TRUE]

timeval_now_monotonic_raw(clk, garbage) ==
    LET r == clock_gettime(clk, garbage)
    IN  [has_status |-> TRUE, rc |-> r.rc, val |-> timespec_to_timeval(r.ts),
         produced |-> TRUE]

(***************************************************************************)
(* time_utilities.hpp: the raw-input constructors.                         *)
(***************************************************************************)
\* fault: CTimeSpec(struct timespec t) without the borrow loop
CTimeSpec_timespec_noborrow(t) ==
    Timespec(CarryLoop(t.tv_sec, t.tv_nsec, NS_IN_SECOND))

\* CTimeSpec(struct timespec t)
CTimeSpec_timespec(t) ==
    Timespec(NormalizeLoops(t.tv_sec, t.tv_nsec, NS_IN_SECOND))

\* CTimeSpec(time_t sec, long nsec)
CTimeSpec_sec_nsec(sec, nsec) ==
    Timespec(NormalizeLoops(sec, nsec, NS_IN_SECOND))

\* CTimeVal(struct timeval t)
CTimeVal_timeval(t) ==
    Timeval(NormalizeLoops(t.tv_sec, t.tv_usec, US_IN_SECOND))

\* CTimeVal(time_t sec, long usec)
CTimeVal_sec_usec(sec, usec) ==
    Timeval(NormalizeLoops(sec, usec, US_IN_SECOND))

(***************************************************************************)
(* time_utilities.hpp: the other constructors.                             *)
(***************************************************************************)
\* CTimeSpec()
CTimeSpec_default == [tv_sec |-> 0, tv_nsec |-> 0]

\* fault: CTimeSpec(unsigned int ms) reducing ms modulo 2000
CTimeSpec_ms_mod2000(ms) ==
    [tv_sec |-> ms \div MS_IN_SECOND,
     tv_nsec |-> (ms % 2000) * NS_IN_MS]

\* CTimeSpec(unsigned int ms)
CTimeSpec_ms(ms) ==
    [tv_sec |-> ms \div MS_IN_SECOND,
     tv_nsec |-> (ms % MS_IN_SECOND) * NS_IN_MS]

\* CTimeSpec(struct timeval tv)
CTimeSpec_timeval(tv) ==
    Timespec(NormalizeLoops(tv.tv_sec, tv.tv_usec * 1000, NS_IN_SECOND))

\* CTimeVal()
CTimeVal_default == [tv_sec |-> 0, tv_usec |-> 0]

\* CTimeVal(unsigned int ms)
\* fault: the constructor without `% MS_IN_SECOND'
CTimeVal_ms_nomod(ms) ==
    [tv_sec |-> ms \div MS_IN_SECOND, tv_usec |-> ms * US_IN_MS]

CTimeVal_ms(ms) ==
    [tv_sec |-> ms \div MS_IN_SECOND,
     tv_usec |-> (ms % MS_IN_SECOND) * US_IN_MS]

\* fault: CTimeVal(struct timespec ts) dividing with floor instead of
\* truncation
CTimeVal_timespec_floor(ts) ==
    Timeval(NormalizeLoops(ts.tv_sec, ts.tv_nsec \div 1000, US_IN_SECOND))

\* CTimeVal(struct timespec ts)
CTimeVal_timespec(ts) ==
    Timeval(NormalizeLoops(ts.tv_sec, CDiv(ts.tv_nsec, 1000), US_IN_SECOND))

(***************************************************************************)
(* time_utilities.hpp: CTimeSpec operators.  lhs / this and rhs are the    *)
(* wrapped structs of the two objects.                                     *)
(***************************************************************************)
\* CTimeSpec::operator+=, the new value of *this
CTimeSpec_add_assign(this, rhs) ==
    LET sec == this.tv_sec + rhs.tv_sec
        nsec == this.tv_nsec + rhs.tv_nsec
    IN  IF nsec >= NS_IN_SECOND
        THEN [tv_sec |-> sec + 1, tv_nsec |-> nsec - NS_IN_SECOND]
        ELSE [tv_sec |-> sec, tv_nsec |-> nsec]

\* CTimeSpec::operator-=, the new value of *this
CTimeSpec_sub_assign(this, rhs) ==
    LET sec == this.tv_sec - rhs.tv_sec
        nsec == this.tv_nsec - rhs.tv_nsec
    IN  IF nsec < 0
        THEN [tv_sec |-> sec - 1, tv_nsec |-> nsec + NS_IN_SECOND]
        ELSE [tv_sec |-> sec, tv_nsec |-> nsec]

\* CTimeSpec::operator!=
CTimeSpec_ne(this, rhs) ==
    IF this.tv_sec # rhs.tv_sec THEN TRUE
    ELSE IF this.tv_nsec # rhs.tv_nsec THEN TRUE
    ELSE FALSE

\* CTimeSpec::operator==
CTimeSpec_eq(this, rhs) == ~ CTimeSpec_ne(this, rhs)

\* CTimeSpec::operator<
CTimeSpec_lt(this, rhs) ==
    IF this.tv_sec < rhs.tv_sec THEN TRUE
    ELSE IF this.tv_nsec < rhs.tv_nsec THEN TRUE
    ELSE FALSE

\* CTimeSpec::operator>
CTimeSpec_gt(this, rhs) ==
    IF this.tv_sec > rhs.tv_sec THEN TRUE
    ELSE IF this.tv_nsec > rhs.tv_nsec THEN TRUE
    ELSE FALSE

\* CTimeSpec::operator<=
CTimeSpec_le(this, rhs) ==
    IF CTimeSpec_lt(this, rhs) THEN TRUE
    ELSE IF CTimeSpec_eq(this, rhs) THEN TRUE
    ELSE FALSE

\* CTimeSpec::operator>=
CTimeSpec_ge(this, rhs) ==
    IF CTimeSpec_gt(this, rhs) THEN TRUE
    ELSE IF CTimeSpec_eq(this, rhs) THEN TRUE
    ELSE FALSE

\* operator+ (const CTimeSpec&, const CTimeSpec&)
CTimeSpec_plus(lhs, rhs) ==
    LET sec == lhs.tv_sec + rhs.tv_sec
        nsec == lhs.tv_nsec + rhs.tv_nsec
        sum == IF nsec >= NS_IN_SECOND
               THEN [tv_sec |-> sec + 1, tv_nsec |-> nsec - NS_IN_SECOND]
               ELSE [tv_sec |-> sec, tv_nsec |-> nsec]
    IN  CTimeSpec_timespec(sum)

\* operator- (const CTimeSpec&, const CTimeSpec&)
\* fault: operator- with its operands exchanged
CTimeSpec_minus_swapped(lhs, rhs) ==
    CTimeSpec_timespec(timespec_subtract(rhs, lhs))

CTimeSpec_minus(lhs, rhs) ==
    LET sec == lhs.tv_sec - rhs.tv_sec
        nsec == lhs.tv_nsec - rhs.tv_nsec
        difference ==
            IF nsec < 0
            THEN [tv_sec |-> sec - 1, tv_nsec |-> nsec + NS_IN_SECOND]
            ELSE [tv_sec |-> sec, tv_nsec |-> nsec]
    IN  CTimeSpec_timespec(difference)

(***************************************************************************)
(* time_utilities.hpp: CTimeVal operators.                                 *)
(***************************************************************************)
\* CTimeVal::operator+=, the new value of *this
CTimeVal_add_assign(this, rhs) ==
    LET sec == this.tv_sec + rhs.tv_sec
        usec == this.tv_usec + rhs.tv_usec
    IN  IF usec >= US_IN_SECOND
        THEN [tv_sec |-> sec + 1, tv_usec |-> usec - US_IN_SECOND]
        ELSE [tv_sec |-> sec, tv_usec |-> usec]

\* CTimeVal::operator-=, the new value of *this
\* fault: operator-= without the borrow step
CTimeVal_sub_assign_noborrow(this, rhs) ==
    [tv_sec |-> this.tv_sec - rhs.tv_sec,
     tv_usec |-> this.tv_usec - rhs.tv_usec]

CTimeVal_sub_assign(this, rhs) ==
    LET sec == this.tv_sec - rhs.tv_sec
        usec == this.tv_usec - rhs.tv_usec
    IN  IF usec < 0
        THEN [tv_sec |-> sec - 1, tv_usec |-> usec + US_IN_SECOND]
        ELSE [tv_sec |-> sec, tv_usec |-> usec]

\* CTimeVal::operator!=
CTimeVal_ne(this, rhs) ==
    IF this.tv_sec # rhs.tv_sec THEN TRUE
    ELSE IF this.tv_usec # rhs.tv_usec THEN TRUE
    ELSE FALSE

\* CTimeVal::operator==
CTimeVal_eq(this, rhs) == ~ CTimeVal_ne(this, rhs)

\* CTimeVal::operator<
CTimeVal_lt(this, rhs) ==
    IF this.tv_sec < rhs.tv_sec THEN TRUE
    ELSE IF this.tv_usec < rhs.tv_usec THEN TRUE
    ELSE FALSE

\* CTimeVal::operator>
CTimeVal_gt(this, rhs) ==
    IF this.tv_sec > rhs.tv_sec THEN TRUE
    ELSE IF this.tv_usec > rhs.tv_usec THEN TRUE
    ELSE FALSE

\* CTimeVal::operator<=
CTimeVal_le(this, rhs) ==
    IF CTimeVal_lt(this, rhs) THEN TRUE
    ELSE IF CTimeVal_eq(this, rhs) THEN TRUE
    ELSE FALSE

\* CTimeVal::operator>=
CTimeVal_ge(this, rhs) ==
    IF CTimeVal_gt(this, rhs) THEN TRUE
    ELSE IF CTimeVal_eq(this, rhs) THEN TRUE
    ELSE FALSE

\* operator+ (const CTimeVal&, const CTimeVal&)
\* fault: operator+ that forgets rhs.tv_sec
CTimeVal_plus_dropsec(lhs, rhs) ==
    CTimeVal_timeval([tv_sec |-> lhs.tv_sec,
                      tv_usec |-> lhs.tv_usec + rhs.tv_usec])

CTimeVal_plus(lhs, rhs) ==
    LET sec == lhs.tv_sec + rhs.tv_sec
        usec == lhs.tv_usec + rhs.tv_usec
        sum == IF usec >= US_IN_SECOND
               THEN [tv_sec |-> sec + 1, tv_usec |-> usec - US_IN_SECOND]
               ELSE [tv_sec |-> sec, tv_usec |-> usec]
    IN  CTimeVal_timeval(sum)

\* operator- (const CTimeVal&, const CTimeVal&)
CTimeVal_minus(lhs, rhs) ==
    LET sec == lhs.tv_sec - rhs.tv_sec
        usec == lhs.tv_usec - rhs.tv_usec
        difference ==
            IF usec < 0
            THEN [tv_sec |-> sec - 1, tv_usec |-> usec + US_IN_SECOND]
            ELSE [tv_sec |-> sec, tv_usec |-> usec]
    IN  CTimeVal_timeval(difference)

(***************************************************************************)
(* time_utilities.hpp: the static `Now' factories.  The status of the      *)
(* clock read is discarded and an object is always constructed from the    *)
(* local buffer.                                                           *)
(***************************************************************************)
\* fault: Now that returns the buffer without the constructor's loops
CTimeSpec_Now_passthrough(clk, garbage) ==
    LET r == clock_gettime(clk, garbage)
    IN  [has_status |-> FALSE, val |-> r.ts, produced |-> TRUE]

CTimeSpec_Now(clk, garbage) ==
    LET r == clock_gettime(clk, garbage)
    IN  [has_status |-> FALSE, val |-> CTimeSpec_timespec(r.ts),
         produced |-> TRUE]

CTimeSpec_NowMonotonic(clk, garbage) ==
    LET r == clock_gettime(clk, garbage)
    IN  [has_status |-> FALSE, val |-> CTimeSpec_timespec(r.ts),
         produced |-> TRUE]

CTimeSpec_NowMonotonicRaw(clk, garbage) ==
    LET r == clock_gettime(clk, garbage)
    IN  [has_status |-> FALSE, val |-> CTimeSpec_timespec(r.ts),
         produced |-> TRUE]

CTimeVal_Now(clk, garbage) ==
    LET r == clock_gettime(clk, garbage)
    IN  [has_status |-> FALSE, val |-> CTimeVal_timespec(r.ts),
         produced |-> TRUE]

CTimeVal_NowMonotonic(clk, garbage) ==
    LET r == clock_gettime(clk, garbage)
    IN  [has_status |-> FALSE, val |-> CTimeVal_timespec(r.ts),
         produced |-> TRUE]

CTimeVal_NowMonotonicRaw(clk, garbage) ==
    LET r == clock_gettime(clk, garbage)
    IN  [has_status |-> FALSE, val |-> CTimeVal_timespec(r.ts),
         produced |-> TRUE]

(***************************************************************************)
(* time_utilities.hpp: operator+= and operator-= statement by statement on  *)
(* the objects themselves.  objs maps each object's name to its fields;    *)
(* this and rhs are the names `this' and the reference rhs are bound to,   *)
(* which may be one and the same object.  The result is objs after the     *)
(* operator's body.                                                        *)
(***************************************************************************)
\* fault: operator+= that adds rhs.ts.tv_sec after the carry step
CTimeSpec_add_assign_ref_late(objs, this, rhs) ==
    LET s1 == [objs EXCEPT ![this].tv_nsec = @ + objs[rhs].tv_nsec]
        s2 == IF s1[this].tv_nsec >= NS_IN_SECOND
              THEN [s1 EXCEPT ![this].tv_sec = @ + 1,
                              ![this].tv_nsec = @ - NS_IN_SECOND]
              ELSE s1
    IN  [s2 EXCEPT ![this].tv_sec = @ + s2[rhs].tv_sec]

CTimeSpec_add_assign_ref(objs, this, rhs) ==
    LET s1 == [objs EXCEPT ![this].tv_sec = @ + objs[rhs].tv_sec]
        s2 == [s1 EXCEPT ![this].tv_nsec = @ + s1[rhs].tv_nsec]
    IN  IF s2[this].tv_nsec >= NS_IN_SECOND
        THEN [s2 EXCEPT ![this].tv_sec = @ + 1,
                        ![this].tv_nsec = @ - NS_IN_SECOND]
        ELSE s2

CTimeSpec_sub_assign_ref(objs, this, rhs) ==
    LET s1 == [objs EXCEPT ![this].tv_sec = @ - objs[rhs].tv_sec]
        s2 == [s1 EXCEPT ![this].tv_nsec = @ - s1[rhs].tv_nsec]
    IN  IF s2[this].tv_nsec < 0
        THEN [s2 EXCEPT ![this].tv_sec = @ - 1,
                        ![this].tv_nsec = @ + NS_IN_SECOND]
        ELSE s2

CTimeVal_add_assign_ref(objs, this, rhs) ==
    LET s1 == [objs EXCEPT ![this].tv_sec = @ + objs[rhs].tv_sec]
        s2 == [s1 EXCEPT ![this].tv_usec = @ + s1[rhs].tv_usec]
    IN  IF s2[this].tv_usec >= US_IN_SECOND
        THEN [s2 EXCEPT ![this].tv_sec = @ + 1,
                        ![this].tv_usec = @ - US_IN_SECOND]
        ELSE s2

CTimeVal_sub_assign_ref(objs, this, rhs) ==
    LET s1 == [objs EXCEPT ![this].tv_sec = @ - objs[rhs].tv_sec]
        s2 == [s1 EXCEPT ![this].tv_usec = @ - s1[rhs].tv_usec]
    IN  IF s2[this].tv_usec < 0
        THEN [s2 EXCEPT ![this].tv_sec = @ - 1,
                        ![this].tv_usec = @ + US_IN_SECOND]
        ELSE s2

(***************************************************************************)
(* State.                                                                  *)
(*   fn, arg1, arg2, out : the function or operator a caller has invoked,  *)
(*                         its operands and its result ("none" between     *)
(*                         two calls)                                      *)
(*   A, B                : two CTimeSpec objects                           *)
(*   V, W                : two CTimeVal objects                            *)
(*   steps               : number of operations applied to the objects     *)
(***************************************************************************)
VARIABLES fn, arg1, arg2, out, A, B, V, W, steps

callVars == <<fn, arg1, arg2, out>>

objVars == <<A, B, V, W, steps>>

vars == <<fn, arg1, arg2, out, A, B, V, W, steps>>

None == <<>>

Init ==
    /\ fn = "none"
    /\ arg1 = None
    /\ arg2 = None
    /\ out = None
    /\ A = CTimeSpec_default
    /\ B = CTimeSpec_default
    /\ V = CTimeVal_default
    /\ W = CTimeVal_default
    /\ steps = 0

(***************************************************************************)
(* Spec: a caller invokes one function or operator at a time on operands   *)
(* of its choice.                                                          *)
(***************************************************************************)
Call(f, x, y, r) ==
    /\ fn' = f
    /\ arg1' = x
    /\ arg2' = y
    /\ out' = r
    /\ UNCHANGED objVars

\* the call returns and the caller goes on to its next call
Return ==
    /\ fn # "none"
    /\ fn' = "none"
    /\ arg1' = None
    /\ arg2' = None
    /\ out' = None
    /\ UNCHANGED objVars

Do_timespec_normalize ==
    /\ fn = "none"
    /\ \E ts \in TimespecRaw :
        Call("timespec_normalize", ts, None, timespec_normalize(ts))

Do_timeval_normalize ==
    /\ fn = "none"
    /\ \E tv \in TimevalRaw :
        Call("timeval_normalize", tv, None, timeval_normalize(tv))

Do_CTimeSpec_timespec ==
    /\ fn = "none"
    /\ \E t \in TimespecRaw :
        Call("CTimeSpec(timespec)", t, None, CTimeSpec_timespec(t))

Do_CTimeSpec_sec_nsec ==
    /\ fn = "none"
    /\ \E t \in TimespecRaw :
        Call("CTimeSpec(sec,nsec)", t, None,
             CTimeSpec_sec_nsec(t.tv_sec, t.tv_nsec))

Do_CTimeVal_timeval ==
    /\ fn = "none"
    /\ \E t \in TimevalRaw :
        Call("CTimeVal(timeval)", t, None, CTimeVal_timeval(t))

Do_CTimeVal_sec_usec ==
    /\ fn = "none"
    /\ \E t \in TimevalRaw :
        Call("CTimeVal(sec,usec)", t, None,
             CTimeVal_sec_usec(t.tv_sec, t.tv_usec))

Do_timespec_add ==
    /\ fn = "none"
    /\ \E a, b \in TimespecOperand :
        Call("timespec_add", a, b, timespec_add(a, b))

Do_timespec_subtract ==
    /\ fn = "none"
    /\ \E a, b \in TimespecOperand :
        Call("timespec_subtract", a, b, timespec_subtract(a, b))

Do_timeval_add ==
    /\ fn = "none"
    /\ \E a, b \in TimevalOperand :
        Call("timeval_add", a, b, timeval_add(a, b))

Do_timeval_subtract ==
    /\ fn = "none"
    /\ \E a, b \in TimevalOperand :
        Call("timeval_subtract", a, b, timeval_subtract(a, b))

Do_timespec_compare ==
    /\ fn = "none"
    /\ \E a, b \in TimespecOperand :
        Call("timespec_compare", a, b, timespec_compare(a, b))

Do_timeval_compare ==
    /\ fn = "none"
    /\ \E a, b \in TimevalOperand :
        Call("timeval_compare", a, b, timeval_compare(a, b))

Do_timespec_from_ms ==
    /\ fn = "none"
    /\ \E ms \in IntMsValues :
        Call("timespec_from_ms", ms, None, timespec_from_ms(ms))

Do_timeval_from_ms ==
    /\ fn = "none"
    /\ \E ms \in IntMsValues :
        Call("timeval_from_ms", ms, None, timeval_from_ms(ms))

Do_CTimeSpec_ms ==
    /\ fn = "none"
    /\ \E ms \in MsValues :
        Call("CTimeSpec(ms)", ms, None, CTimeSpec_ms(ms))

Do_CTimeVal_ms ==
    /\ fn = "none"
    /\ \E ms \in MsValues :
        Call("CTimeVal(ms)", ms, None, CTimeVal_ms(ms))

\* the operands of the class operators are objects, which are normalized
Do_CTimeSpec_plus ==
    /\ fn = "none"
    /\ \E a, b \in TimespecNormalized :
        Call("CTimeSpec+", a, b, CTimeSpec_plus(a, b))

Do_CTimeSpec_minus ==
    /\ fn = "none"
    /\ \E a, b \in TimespecNormalized :
        Call("CTimeSpec-", a, b, CTimeSpec_minus(a, b))

Do_CTimeVal_plus ==
    /\ fn = "none"
    /\ \E a, b \in TimevalNormalized :
        Call("CTimeVal+", a, b, CTimeVal_plus(a, b))

Do_CTimeVal_minus ==
    /\ fn = "none"
    /\ \E a, b \in TimevalNormalized :
        Call("CTimeVal-", a, b, CTimeVal_minus(a, b))

Do_CTimeSpec_ne ==
    /\ fn = "none"
    /\ \E a, b \in TimespecNormalized :
        Call("CTimeSpec!=", a, b, CTimeSpec_ne(a, b))

Do_CTimeSpec_eq ==
    /\ fn = "none"
    /\ \E a, b \in TimespecNormalized :
        Call("CTimeSpec==", a, b, CTimeSpec_eq(a, b))

Do_CTimeSpec_lt ==
    /\ fn = "none"
    /\ \E a, b \in TimespecNormalized :
        Call("CTimeSpec<", a, b, CTimeSpec_lt(a, b))

Do_CTimeSpec_gt ==
    /\ fn = "none"
    /\ \E a, b \in TimespecNormalized :
        Call("CTimeSpec>", a, b, CTimeSpec_gt(a, b))

Do_CTimeSpec_le ==
    /\ fn = "none"
    /\ \E a, b \in TimespecNormalized :
        Call("CTimeSpec<=", a, b, CTimeSpec_le(a, b))

Do_CTimeSpec_ge ==
    /\ fn = "none"
    /\ \E a, b \in TimespecNormalized :
        Call("CTimeSpec>=", a, b, CTimeSpec_ge(a, b))

Do_CTimeVal_ne ==
    /\ fn = "none"
    /\ \E a, b \in TimevalNormalized :
        Call("CTimeVal!=", a, b, CTimeVal_ne(a, b))

Do_CTimeVal_eq ==
    /\ fn = "none"
    /\ \E a, b \in TimevalNormalized :
        Call("CTimeVal==", a, b, CTimeVal_eq(a, b))

Do_CTimeVal_lt ==
    /\ fn = "none"
    /\ \E a, b \in TimevalNormalized :
        Call("CTimeVal<", a, b, CTimeVal_lt(a, b))

Do_CTimeVal_gt ==
    /\ fn = "none"
    /\ \E a, b \in TimevalNormalized :
        Call("CTimeVal>", a, b, CTimeVal_gt(a, b))

Do_CTimeVal_le ==
    /\ fn = "none"
    /\ \E a, b \in TimevalNormalized :
        Call("CTimeVal<=", a, b, CTimeVal_le(a, b))

Do_CTimeVal_ge ==
    /\ fn = "none"
    /\ \E a, b \in TimevalNormalized :
        Call("CTimeVal>=", a, b, CTimeVal_ge(a, b))

Do_timespec_to_timeval ==
    /\ fn = "none"
    /\ \E ts \in TimespecRaw :
        Call("timespec_to_timeval", ts, None, timespec_to_timeval(ts))

Do_timeval_to_timespec ==
    /\ fn = "none"
    /\ \E tv \in TimevalRawScalable :
        Call("timeval_to_timespec", tv, None, timeval_to_timespec(tv))

Do_CTimeVal_timespec ==
    /\ fn = "none"
    /\ \E ts \in TimespecRaw \cup TestConversionsTimespec :
        Call("CTimeVal(timespec)", ts, None, CTimeVal_timespec(ts))

Do_CTimeSpec_timeval ==
    /\ fn = "none"
    /\ \E tv \in TimevalRawScalable :
        Call("CTimeSpec(timeval)", tv, None, CTimeSpec_timeval(tv))

Do_timespec_now ==
    /\ fn = "none"
    /\ \E clk \in ClockReads, buf \in Indeterminate :
        Call("timespec_now", clk, buf, timespec_now(clk, buf))

Do_timespec_now_monotonic ==
    /\ fn = "none"
    /\ \E clk \in ClockReads, buf \in Indeterminate :
        Call("timespec_now_monotonic", clk, buf, timespec_now_monotonic(clk, buf))

Do_timespec_now_monotonic_raw ==
    /\ fn = "none"
    /\ \E clk \in ClockReads, buf \in Indeterminate :
        Call("timespec_now_monotonic_raw", clk, buf, timespec_now_monotonic_raw(clk, buf))

Do_timeval_now ==
    /\ fn = "none"
    /\ \E clk \in ClockReads, buf \in Indeterminate :
        Call("timeval_now", clk, buf, timeval_now(clk, buf))

Do_timeval_now_monotonic ==
    /\ fn = "none"
    /\ \E clk \in ClockReads, buf \in Indeterminate :
        Call("timeval_now_monotonic", clk, buf, timeval_now_monotonic(clk, buf))

Do_timeval_now_monotonic_raw ==
    /\ fn = "none"
    /\ \E clk \in ClockReads, buf \in Indeterminate :
        Call("timeval_now_monotonic_raw", clk, buf, timeval_now_monotonic_raw(clk, buf))

Do_CTimeSpec_Now ==
    /\ fn = "none"
    /\ \E clk \in ClockReads, buf \in Indeterminate :
        Call("CTimeSpec::Now", clk, buf, CTimeSpec_Now(clk, buf))

Do_CTimeSpec_NowMonotonic ==
    /\ fn = "none"
    /\ \E clk \in ClockReads, buf \in Indeterminate :
        Call("CTimeSpec::NowMonotonic", clk, buf, CTimeSpec_NowMonotonic(clk, buf))

Do_CTimeSpec_NowMonotonicRaw ==
    /\ fn = "none"
    /\ \E clk \in ClockReads, buf \in Indeterminate :
        Call("CTimeSpec::NowMonotonicRaw", clk, buf, CTimeSpec_NowMonotonicRaw(clk, buf))

Do_CTimeVal_Now ==
    /\ fn = "none"
    /\ \E clk \in ClockReads, buf \in Indeterminate :
        Call("CTimeVal::Now", clk, buf, CTimeVal_Now(clk, buf))

Do_CTimeVal_NowMonotonic ==
    /\ fn = "none"
    /\ \E clk \in ClockReads, buf \in Indeterminate :
        Call("CTimeVal::NowMonotonic", clk, buf, CTimeVal_NowMonotonic(clk, buf))

Do_CTimeVal_NowMonotonicRaw ==
    /\ fn = "none"
    /\ \E clk \in ClockReads, buf \in Indeterminate :
        Call("CTimeVal::NowMonotonicRaw", clk, buf, CTimeVal_NowMonotonicRaw(clk, buf))

Do_CTimeSpec_add_assign ==
    /\ fn = "none"
    /\ \E a, b \in TimespecNormalized, l, r \in {"A", "B"} :
        LET objs == [A |-> a, B |-> b]
        IN  Call("CTimeSpec+=", objs, <<l, r>>,
                 CTimeSpec_add_assign_ref(objs, l, r))

Do_CTimeSpec_sub_assign ==
    /\ fn = "none"
    /\ \E a, b \in TimespecNormalized, l, r \in {"A", "B"} :
        LET objs == [A |-> a, B |-> b]
        IN  Call("CTimeSpec-=", objs, <<l, r>>,
                 CTimeSpec_sub_assign_ref(objs, l, r))

Do_CTimeVal_add_assign ==
    /\ fn = "none"
    /\ \E a, b \in TimevalNormalized, l, r \in {"V", "W"} :
        LET objs == [V |-> a, W |-> b]
        IN  Call("CTimeVal+=", objs, <<l, r>>,
                 CTimeVal_add_assign_ref(objs, l, r))

Do_CTimeVal_sub_assign ==
    /\ fn = "none"
    /\ \E a, b \in TimevalNormalized, l, r \in {"V", "W"} :
        LET objs == [V |-> a, W |-> b]
        IN  Call("CTimeVal-=", objs, <<l, r>>,
                 CTimeVal_sub_assign_ref(objs, l, r))

Next ==
    \/ Return
    \/ Do_timespec_normalize
    \/ Do_timeval_normalize
    \/ Do_CTimeSpec_timespec
    \/ Do_CTimeSpec_sec_nsec
    \/ Do_CTimeVal_timeval
    \/ Do_CTimeVal_sec_usec
    \/ Do_timespec_add
    \/ Do_timespec_subtract
    \/ Do_timeval_add
    \/ Do_timeval_subtract
    \/ Do_timespec_compare
    \/ Do_timeval_compare
    \/ Do_timespec_from_ms
    \/ Do_timeval_from_ms
    \/ Do_CTimeSpec_ms
    \/ Do_CTimeVal_ms
    \/ Do_CTimeSpec_plus
    \/ Do_CTimeSpec_minus
    \/ Do_CTimeVal_plus
    \/ Do_CTimeVal_minus
    \/ Do_CTimeSpec_ne
    \/ Do_CTimeSpec_eq
    \/ Do_CTimeSpec_lt
    \/ Do_CTimeSpec_gt
    \/ Do_CTimeSpec_le
    \/ Do_CTimeSpec_ge
    \/ Do_CTimeVal_ne
    \/ Do_CTimeVal_eq
    \/ Do_CTimeVal_lt
    \/ Do_CTimeVal_gt
    \/ Do_CTimeVal_le
    \/ Do_CTimeVal_ge
    \/ Do_timespec_to_timeval
    \/ Do_timeval_to_timespec
    \/ Do_CTimeVal_timespec
    \/ Do_CTimeSpec_timeval
    \/ Do_timespec_now
    \/ Do_timespec_now_monotonic
    \/ Do_timespec_now_monotonic_raw
    \/ Do_timeval_now
    \/ Do_timeval_now_monotonic
    \/ Do_timeval_now_monotonic_raw
    \/ Do_CTimeSpec_Now
    \/ Do_CTimeSpec_NowMonotonic
    \/ Do_CTimeSpec_NowMonotonicRaw
    \/ Do_CTimeVal_Now
    \/ Do_CTimeVal_NowMonotonic
    \/ Do_CTimeVal_NowMonotonicRaw
    \/ Do_CTimeSpec_add_assign
    \/ Do_CTimeSpec_sub_assign
    \/ Do_CTimeVal_add_assign
    \/ Do_CTimeVal_sub_assign

Spec == Init /\ [][Next]_vars

(***************************************************************************)
(* ObjSpec: a program constructs and combines CTimeSpec objects A, B and   *)
(* CTimeVal objects V, W, one operation per step.                          *)
(***************************************************************************)
ObjSecValues == {0, 1}

ObjNsecRaw == {0 - 1000000001, 0 - 1, 999999999, 1000000000}

ObjUsecRaw == {0 - 1000001, 0 - 1, 999999, 1000000}

ObjTimespecRaw == [tv_sec : ObjSecValues, tv_nsec : ObjNsecRaw]

ObjTimevalRaw == [tv_sec : ObjSecValues, tv_usec : ObjUsecRaw]

ObjMsValues == {1, 1999}

SpecNames == {"A", "B"}

ValNames == {"V", "W"}

SpecObj(n) == IF n = "A" THEN A ELSE B

ValObj(n) == IF n = "V" THEN V ELSE W

\* the object named n becomes v
SetSpecObj(n, v) ==
    /\ steps < MaxSteps
    /\ steps' = steps + 1
    /\ A' = IF n = "A" THEN v ELSE A
    /\ B' = IF n = "B" THEN v ELSE B
    /\ UNCHANGED <<V, W>>
    /\ UNCHANGED callVars

SetValObj(n, v) ==
    /\ steps < MaxSteps
    /\ steps' = steps + 1
    /\ V' = IF n = "V" THEN v ELSE V
    /\ W' = IF n = "W" THEN v ELSE W
    /\ UNCHANGED <<A, B>>
    /\ UNCHANGED callVars

Obj_CTimeSpec_default ==
    \E n \in SpecNames : SetSpecObj(n, CTimeSpec_default)

Obj_CTimeSpec_ms ==
    \E n \in SpecNames, ms \in ObjMsValues : SetSpecObj(n, CTimeSpec_ms(ms))

Obj_CTimeSpec_timespec ==
    \E n \in SpecNames, t \in ObjTimespecRaw :
        SetSpecObj(n, CTimeSpec_timespec(t))

Obj_CTimeSpec_sec_nsec ==
    \E n \in SpecNames, t \in ObjTimespecRaw :
        SetSpecObj(n, CTimeSpec_sec_nsec(t.tv_sec, t.tv_nsec))

\* from a raw struct timeval or from the c_timeval() of a CTimeVal
Obj_CTimeSpec_timeval ==
    \E n \in SpecNames, tv \in ObjTimevalRaw \cup {V, W} :
        SetSpecObj(n, CTimeSpec_timeval(tv))

\* lhs += rhs; lhs and rhs may be the same object
Obj_CTimeSpec_add_assign ==
    \E l, r \in SpecNames :
        SetSpecObj(l, CTimeSpec_add_assign(SpecObj(l), SpecObj(r)))

Obj_CTimeSpec_sub_assign ==
    \E l, r \in SpecNames :
        SetSpecObj(l, CTimeSpec_sub_assign(SpecObj(l), SpecObj(r)))

\* n = lhs + rhs
Obj_CTimeSpec_plus ==
    \E n, l, r \in SpecNames :
        SetSpecObj(n, CTimeSpec_plus(SpecObj(l), SpecObj(r)))

Obj_CTimeSpec_minus ==
    \E n, l, r \in SpecNames :
        SetSpecObj(n, CTimeSpec_minus(SpecObj(l), SpecObj(r)))

Obj_CTimeVal_default ==
    \E n \in ValNames : SetValObj(n, CTimeVal_default)

Obj_CTimeVal_ms ==
    \E n \in ValNames, ms \in ObjMsValues : SetValObj(n, CTimeVal_ms(ms))

Obj_CTimeVal_timeval ==
    \E n \in ValNames, t \in ObjTimevalRaw :
        SetValObj(n, CTimeVal_timeval(t))

Obj_CTimeVal_sec_usec ==
    \E n \in ValNames, t \in ObjTimevalRaw :
        SetValObj(n, CTimeVal_sec_usec(t.tv_sec, t.tv_usec))

\* from a raw struct timespec or from the c_timespec() of a CTimeSpec
Obj_CTimeVal_timespec ==
    \E n \in ValNames, ts \in ObjTimespecRaw \cup {A, B} :
        SetValObj(n, CTimeVal_timespec(ts))

Obj_CTimeVal_add_assign ==
    \E l, r \in ValNames :
        SetValObj(l, CTimeVal_add_assign(ValObj(l), ValObj(r)))

Obj_CTimeVal_sub_assign ==
    \E l, r \in ValNames :
        SetValObj(l, CTimeVal_sub_assign(ValObj(l), ValObj(r)))

Obj_CTimeVal_plus ==
    \E n, l, r \in ValNames :
        SetValObj(n, CTimeVal_plus(ValObj(l), ValObj(r)))

Obj_CTimeVal_minus ==
    \E n, l, r \in ValNames :
        SetValObj(n, CTimeVal_minus(ValObj(l), ValObj(r)))

ObjNext ==
    \/ Obj_CTimeSpec_default
    \/ Obj_CTimeSpec_ms
    \/ Obj_CTimeSpec_timespec
    \/ Obj_CTimeSpec_sec_nsec
    \/ Obj_CTimeSpec_timeval
    \/ Obj_CTimeSpec_add_assign
    \/ Obj_CTimeSpec_sub_assign
    \/ Obj_CTimeSpec_plus
    \/ Obj_CTimeSpec_minus
    \/ Obj_CTimeVal_default
    \/ Obj_CTimeVal_ms
    \/ Obj_CTimeVal_timeval
    \/ Obj_CTimeVal_sec_usec
    \/ Obj_CTimeVal_timespec
    \/ Obj_CTimeVal_add_assign
    \/ Obj_CTimeVal_sub_assign
    \/ Obj_CTimeVal_plus
    \/ Obj_CTimeVal_minus

ObjSpec == Init /\ [][ObjNext]_vars

(***************************************************************************)
(* Properties.                                                             *)
(***************************************************************************)
NsNormalized(t) == 0 <= t.tv_nsec /\ t.tv_nsec < NS_IN_SECOND

UsNormalized(t) == 0 <= t.tv_usec /\ t.tv_usec < US_IN_SECOND

\* The value of a timeval in microseconds.
UsTotal(t) == t.tv_sec * US_IN_SECOND + t.tv_usec

\* The value tv_sec * 10^9 + tv_nsec of a timespec does not fit 32 bits, so
\* it is held exactly as two limbs <<hi, lo>> with value hi * 1000 + lo and
\* 0 <= lo < 1000: the whole microseconds and the remaining nanoseconds.
NsTotal(t) ==
    <<t.tv_sec * 1000000 + (t.tv_nsec \div 1000), t.tv_nsec % 1000>>

LimbAdd(x, y) ==
    <<x[1] + y[1] + ((x[2] + y[2]) \div 1000), (x[2] + y[2]) % 1000>>

LimbSub(x, y) ==
    <<x[1] - y[1] + ((x[2] - y[2]) \div 1000), (x[2] - y[2]) % 1000>>

LimbLess(x, y) == x[1] < y[1] \/ (x[1] = y[1] /\ x[2] < y[2])

Sign(x) == IF x > 0 THEN 1 ELSE IF x < 0 THEN 0 - 1 ELSE 0

NsNormalizing ==
    {"timespec_normalize", "CTimeSpec(timespec)", "CTimeSpec(sec,nsec)"}

UsNormalizing ==
    {"timeval_normalize", "CTimeVal(timeval)", "CTimeVal(sec,usec)"}

\* C1: every normalization (timespec_normalize, timeval_normalize and the
\* raw-input constructors) turns (whole, frac) into (whole', frac') with
\* 0 <= frac' < SCALE, whole' = whole + floor(frac / SCALE) and
\* frac' = frac - floor(frac / SCALE) * SCALE (written frac mod SCALE at
\* nanosecond scale, where the product floor(frac / SCALE) * SCALE can
\* exceed 32 bits); at microsecond scale, where the products fit,
\* whole' * SCALE + frac' = whole * SCALE + frac is checked as written, and
\* at nanosecond scale on the two-limb totals.
C1_Normalization ==
    /\ fn \in NsNormalizing =>
        /\ 0 <= out.tv_nsec /\ out.tv_nsec < NS_IN_SECOND
        /\ out.tv_sec = arg1.tv_sec + (arg1.tv_nsec \div NS_IN_SECOND)
        /\ out.tv_nsec = arg1.tv_nsec % NS_IN_SECOND
        /\ NsTotal(out) = NsTotal(arg1)
    /\ fn \in UsNormalizing =>
        /\ 0 <= out.tv_usec /\ out.tv_usec < US_IN_SECOND
        /\ out.tv_sec = arg1.tv_sec + (arg1.tv_usec \div US_IN_SECOND)
        /\ out.tv_usec =
             arg1.tv_usec - (arg1.tv_usec \div US_IN_SECOND) * US_IN_SECOND
        /\ out.tv_sec * US_IN_SECOND + out.tv_usec =
             arg1.tv_sec * US_IN_SECOND + arg1.tv_usec

\* a fractional field more than two multiples of SCALE out of range has
\* been normalized
C1_Witness ==
    /\ fn = "timespec_normalize"
    /\ arg1 = [tv_sec |-> 2, tv_nsec |-> 2147483647]
    /\ out = [tv_sec |-> 4, tv_nsec |-> 147483647]

\* C2: class invariant.  Every CTimeSpec and CTimeVal object reachable by
\* constructors and +, -, +=, -= has its fractional field in [0, SCALE).
C2_ClassInvariant ==
    /\ \A n \in SpecNames :
        0 <= SpecObj(n).tv_nsec /\ SpecObj(n).tv_nsec < NS_IN_SECOND
    /\ \A n \in ValNames :
        0 <= ValObj(n).tv_usec /\ ValObj(n).tv_usec < US_IN_SECOND

\* objects built from out-of-range input have been combined: the fields
\* SCALE - 2 only arise from a sum of two objects that carried
C2_Witness ==
    /\ A.tv_nsec = NS_IN_SECOND - 2
    /\ B.tv_sec < 0
    /\ V.tv_usec = US_IN_SECOND - 2

\* C3: addition of normalized operands a and b (timespec_add, timeval_add,
\* operator+ of both classes) gives a normalized sum s whose value is the
\* sum of the operands' values, with s.whole = a.whole + b.whole or
\* a.whole + b.whole + 1.
C3_Addition ==
    /\ (fn \in {"timespec_add", "CTimeSpec+"}
            /\ NsNormalized(arg1) /\ NsNormalized(arg2)) =>
        /\ NsNormalized(out)
        /\ NsTotal(out) = LimbAdd(NsTotal(arg1), NsTotal(arg2))
        /\ out.tv_sec - (arg1.tv_sec + arg2.tv_sec) \in {0, 1}
    /\ (fn \in {"timeval_add", "CTimeVal+"}
            /\ UsNormalized(arg1) /\ UsNormalized(arg2)) =>
        /\ UsNormalized(out)
        /\ UsTotal(out) = UsTotal(arg1) + UsTotal(arg2)
        /\ out.tv_sec - (arg1.tv_sec + arg2.tv_sec) \in {0, 1}

\* a sum that carried
C3_Witness ==
    /\ fn = "timespec_add"
    /\ arg1 = [tv_sec |-> 1, tv_nsec |-> 999999999]
    /\ arg2 = [tv_sec |-> 1, tv_nsec |-> 2]
    /\ out = [tv_sec |-> 3, tv_nsec |-> 1]

\* C4: subtraction of normalized operands (timespec_subtract,
\* timeval_subtract, operator- of both classes) gives a normalized
\* difference d whose value is the minuend's minus the subtrahend's, with
\* at most one borrow, and d.whole < 0 exactly when the minuend is less than
\* the subtrahend.
C4_Subtraction ==
    /\ (fn \in {"timespec_subtract", "CTimeSpec-"}
            /\ NsNormalized(arg1) /\ NsNormalized(arg2)) =>
        /\ NsNormalized(out)
        /\ NsTotal(out) = LimbSub(NsTotal(arg1), NsTotal(arg2))
        /\ (arg1.tv_sec - arg2.tv_sec) - out.tv_sec \in {0, 1}
        /\ (out.tv_sec < 0) = LimbLess(NsTotal(arg1), NsTotal(arg2))
    /\ (fn \in {"timeval_subtract", "CTimeVal-"}
            /\ UsNormalized(arg1) /\ UsNormalized(arg2)) =>
        /\ UsNormalized(out)
        /\ UsTotal(out) = UsTotal(arg1) - UsTotal(arg2)
        /\ (arg1.tv_sec - arg2.tv_sec) - out.tv_sec \in {0, 1}
        /\ (out.tv_sec < 0) = (UsTotal(arg1) < UsTotal(arg2))

\* a difference that borrowed into a negative whole field
C4_Witness ==
    /\ fn = "timespec_subtract"
    /\ arg1 = [tv_sec |-> 1, tv_nsec |-> 1]
    /\ arg2 = [tv_sec |-> 1, tv_nsec |-> 2]
    /\ out = [tv_sec |-> 0 - 1, tv_nsec |-> 999999999]

\* C5: add/subtract round trip.  For normalized a and b, subtracting b from
\* the sum a + b gives back a field for field, with the C functions and
\* with the class operators, at both resolutions.
C5_RoundTrip ==
    /\ (fn = "timespec_add" /\ NsNormalized(arg1) /\ NsNormalized(arg2)) =>
        timespec_subtract(out, arg2) = arg1
    /\ fn = "CTimeSpec+" => CTimeSpec_minus(out, arg2) = arg1
    /\ (fn = "timeval_add" /\ UsNormalized(arg1) /\ UsNormalized(arg2)) =>
        timeval_subtract(out, arg2) = arg1
    /\ fn = "CTimeVal+" => CTimeVal_minus(out, arg2) = arg1

\* a sum that carried, so that subtracting b again has to borrow
C5_Witness ==
    /\ fn = "CTimeSpec+"
    /\ arg1 = [tv_sec |-> 0 - 1, tv_nsec |-> 999999999]
    /\ arg2 = [tv_sec |-> 2, tv_nsec |-> 999999998]
    /\ out = [tv_sec |-> 2, tv_nsec |-> 999999997]

\* C6: addition commutes.  For normalized a and b the sum a + b equals the
\* sum b + a field for field.
C6_Commutativity ==
    /\ (fn = "timespec_add" /\ NsNormalized(arg1) /\ NsNormalized(arg2)) =>
        out = timespec_add(arg2, arg1)
    /\ fn = "CTimeSpec+" => out = CTimeSpec_plus(arg2, arg1)
    /\ (fn = "timeval_add" /\ UsNormalized(arg1) /\ UsNormalized(arg2)) =>
        out = timeval_add(arg2, arg1)
    /\ fn = "CTimeVal+" => out = CTimeVal_plus(arg2, arg1)

\* a carrying sum of two different operands
C6_Witness ==
    /\ fn = "CTimeVal+"
    /\ arg1 = [tv_sec |-> 2, tv_usec |-> 999999]
    /\ arg2 = [tv_sec |-> 0 - 1, tv_usec |-> 1]
    /\ out = [tv_sec |-> 2, tv_usec |-> 0]

\* C7: three-way comparison.  For normalized a and b, timespec_compare and
\* timeval_compare return -1, 0 or 1 according to a < b, a = b, a > b on the
\* values; the whole fields decide when they differ, otherwise the frac
\* fields; and compare(a, b) = -compare(b, a).
C7_Compare ==
    /\ (fn = "timespec_compare" /\ NsNormalized(arg1) /\ NsNormalized(arg2))
        =>
        /\ out \in {0 - 1, 0, 1}
        /\ (out = 0 - 1) = LimbLess(NsTotal(arg1), NsTotal(arg2))
        /\ (out = 0) = (NsTotal(arg1) = NsTotal(arg2))
        /\ (out = 1) = LimbLess(NsTotal(arg2), NsTotal(arg1))
        /\ out = IF arg1.tv_sec # arg2.tv_sec
                 THEN Sign(arg1.tv_sec - arg2.tv_sec)
                 ELSE Sign(arg1.tv_nsec - arg2.tv_nsec)
        /\ out = 0 - timespec_compare(arg2, arg1)
    /\ (fn = "timeval_compare" /\ UsNormalized(arg1) /\ UsNormalized(arg2))
        =>
        /\ out \in {0 - 1, 0, 1}
        /\ (out = 0 - 1) = (UsTotal(arg1) < UsTotal(arg2))
        /\ (out = 0) = (UsTotal(arg1) = UsTotal(arg2))
        /\ (out = 1) = (UsTotal(arg1) > UsTotal(arg2))
        /\ out = IF arg1.tv_sec # arg2.tv_sec
                 THEN Sign(arg1.tv_sec - arg2.tv_sec)
                 ELSE Sign(arg1.tv_usec - arg2.tv_usec)
        /\ out = 0 - timeval_compare(arg2, arg1)

\* the whole fields and the frac fields are ordered in opposite directions
C7_Witness ==
    /\ fn = "timeval_compare"
    /\ arg1 = [tv_sec |-> 2, tv_usec |-> 0]
    /\ arg2 = [tv_sec |-> 1, tv_usec |-> 999999]
    /\ out = 1

\* C8: total ordering of the value objects.  For normalized objects a and b
\* exactly one of a < b, a == b, a > b is true, and it is the one that
\* holds of the values whole * SCALE + frac.
C8_TotalOrdering ==
    /\ fn \in {"CTimeSpec<", "CTimeSpec==", "CTimeSpec>"} =>
        /\ Cardinality({ r \in {"lt", "eq", "gt"} :
              \/ r = "lt" /\ CTimeSpec_lt(arg1, arg2)
              \/ r = "eq" /\ CTimeSpec_eq(arg1, arg2)
              \/ r = "gt" /\ CTimeSpec_gt(arg1, arg2) }) = 1
        /\ fn = "CTimeSpec<" =>
              out = LimbLess(NsTotal(arg1), NsTotal(arg2))
        /\ fn = "CTimeSpec==" => out = (NsTotal(arg1) = NsTotal(arg2))
        /\ fn = "CTimeSpec>" =>
              out = LimbLess(NsTotal(arg2), NsTotal(arg1))
    /\ fn \in {"CTimeVal<", "CTimeVal==", "CTimeVal>"} =>
        /\ Cardinality({ r \in {"lt", "eq", "gt"} :
              \/ r = "lt" /\ CTimeVal_lt(arg1, arg2)
              \/ r = "eq" /\ CTimeVal_eq(arg1, arg2)
              \/ r = "gt" /\ CTimeVal_gt(arg1, arg2) }) = 1
        /\ fn = "CTimeVal<" => out = (UsTotal(arg1) < UsTotal(arg2))
        /\ fn = "CTimeVal==" => out = (UsTotal(arg1) = UsTotal(arg2))
        /\ fn = "CTimeVal>" => out = (UsTotal(arg1) > UsTotal(arg2))

\* C9: the derived relational operators are consistent with the three-way
\* comparison.  For normalized objects, (a != b) = !(a == b),
\* (a <= b) = !(a > b), (a >= b) = !(a < b), and a <= b holds exactly when
\* the three-way comparison of a and b is less or equal.
C9_DerivedOperators ==
    /\ fn \in {"CTimeSpec!=", "CTimeSpec<=", "CTimeSpec>="} =>
        /\ fn = "CTimeSpec!=" => out = ~ CTimeSpec_eq(arg1, arg2)
        /\ fn = "CTimeSpec<=" =>
              /\ out = ~ CTimeSpec_gt(arg1, arg2)
              /\ out = (timespec_compare(arg1, arg2) \in {0 - 1, 0})
        /\ fn = "CTimeSpec>=" => out = ~ CTimeSpec_lt(arg1, arg2)
    /\ fn \in {"CTimeVal!=", "CTimeVal<=", "CTimeVal>="} =>
        /\ fn = "CTimeVal!=" => out = ~ CTimeVal_eq(arg1, arg2)
        /\ fn = "CTimeVal<=" =>
              /\ out = ~ CTimeVal_gt(arg1, arg2)
              /\ out = (timeval_compare(arg1, arg2) \in {0 - 1, 0})
        /\ fn = "CTimeVal>=" => out = ~ CTimeVal_lt(arg1, arg2)

\* C10: construction from ms >= 0 milliseconds (the two class constructors
\* and timespec_from_ms, timeval_from_ms) gives whole = ms / 1000 and
\* frac = (ms % 1000) * (SCALE / 1000), a normalized result whose value is
\* ms * (SCALE / 1000).
C10_Milliseconds ==
    /\ (fn \in {"timespec_from_ms", "CTimeSpec(ms)"} /\ arg1 >= 0) =>
        /\ out.tv_sec = arg1 \div 1000
        /\ out.tv_nsec = (arg1 % 1000) * (NS_IN_SECOND \div 1000)
        /\ NsNormalized(out)
        /\ NsTotal(out) = <<arg1 * 1000, 0>>
    /\ (fn \in {"timeval_from_ms", "CTimeVal(ms)"} /\ arg1 >= 0) =>
        /\ out.tv_sec = arg1 \div 1000
        /\ out.tv_usec = (arg1 % 1000) * (US_IN_SECOND \div 1000)
        /\ UsNormalized(out)
        /\ UsTotal(out) = arg1 * (US_IN_SECOND \div 1000)

\* a count with whole seconds and a remainder
C10_Witness ==
    /\ fn = "CTimeVal(ms)"
    /\ arg1 = 99999
    /\ out = [tv_sec |-> 99, tv_usec |-> 999000]

\* C11: nanoseconds to microseconds (timespec_to_timeval and
\* CTimeVal(struct timespec)).  A normalized (whole, frac) becomes
\* (whole, frac div 1000), normalized with the whole field untouched, and
\* the result is at most the input value and less than one microsecond
\* below it.
C11_NsToUs ==
    (fn \in {"timespec_to_timeval", "CTimeVal(timespec)"}
        /\ NsNormalized(arg1)) =>
        /\ out = [tv_sec |-> arg1.tv_sec, tv_usec |-> arg1.tv_nsec \div 1000]
        /\ UsNormalized(out)
        /\ ~ LimbLess(NsTotal(arg1), <<UsTotal(out), 0>>)
        /\ LimbLess(NsTotal(arg1), <<UsTotal(out) + 1, 0>>)

\* the largest normalized fraction loses its last 999 nanoseconds
C11_Witness ==
    /\ fn = "timespec_to_timeval"
    /\ arg1 = [tv_sec |-> 1, tv_nsec |-> 999999999]
    /\ out = [tv_sec |-> 1, tv_usec |-> 999999]

\* C12: microseconds to nanoseconds (timeval_to_timespec and
\* CTimeSpec(struct timeval)).  A normalized (whole, frac) becomes
\* (whole, frac * 1000), normalized, of the same value, and converting it
\* back to microseconds returns the original pair.
C12_UsToNs ==
    /\ (fn \in {"timeval_to_timespec", "CTimeSpec(timeval)"}
            /\ UsNormalized(arg1)) =>
        /\ out = [tv_sec |-> arg1.tv_sec, tv_nsec |-> arg1.tv_usec * 1000]
        /\ NsNormalized(out)
        /\ NsTotal(out) = <<UsTotal(arg1), 0>>
    /\ (fn = "timeval_to_timespec" /\ UsNormalized(arg1)) =>
        timespec_to_timeval(out) = arg1
    /\ (fn = "CTimeSpec(timeval)" /\ UsNormalized(arg1)) =>
        CTimeVal_timespec(out) = arg1

\* the largest normalized fraction has been scaled
C12_Witness ==
    /\ fn = "timeval_to_timespec"
    /\ arg1 = [tv_sec |-> 0 - 1, tv_usec |-> 999999]
    /\ out = [tv_sec |-> 0 - 1, tv_nsec |-> 999999000]

TimespecNowFns ==
    {"timespec_now", "timespec_now_monotonic", "timespec_now_monotonic_raw"}

TimevalNowFns ==
    {"timeval_now", "timeval_now_monotonic", "timeval_now_monotonic_raw"}

CTimeSpecNowFns ==
    {"CTimeSpec::Now", "CTimeSpec::NowMonotonic", "CTimeSpec::NowMonotonicRaw"}

CTimeValNowFns ==
    {"CTimeVal::Now", "CTimeVal::NowMonotonic", "CTimeVal::NowMonotonicRaw"}

NowFns ==
    TimespecNowFns \cup TimevalNowFns \cup CTimeSpecNowFns \cup CTimeValNowFns

C14_FailedRead ==
    (fn \in NowFns /\ arg1.rc = 0 - 1) =>
        /\ out.has_status
        /\ out.rc = arg1.rc
        /\ ~ out.produced

\* C15: the cross-resolution constructors normalize raw input.  For every
\* raw timeval, CTimeSpec(tv) is normalized and holds exactly
\* sec * 10^9 + usec * 1000 nanoseconds; for every raw timespec,
\* CTimeVal(ts) is normalized and holds sec * 10^6 + q microseconds, q being
\* nsec / 1000 truncated toward zero; (12, 1999999999) gives (13, 999999),
\* (33, -999) gives (33, 0) and (12, -1000) gives (11, 999999).
C15_CrossConstructors ==
    /\ fn = "CTimeSpec(timeval)" =>
        /\ NsNormalized(out)
        /\ NsTotal(out) = <<UsTotal(arg1), 0>>
    /\ fn = "CTimeVal(timespec)" =>
        /\ UsNormalized(out)
        /\ UsTotal(out) =
            arg1.tv_sec * US_IN_SECOND + CDiv(arg1.tv_nsec, 1000)
        /\ arg1 = [tv_sec |-> 12, tv_nsec |-> 1999999999] =>
            out = [tv_sec |-> 13, tv_usec |-> 999999]
        /\ arg1 = [tv_sec |-> 33, tv_nsec |-> 0 - 999] =>
            out = [tv_sec |-> 33, tv_usec |-> 0]
        /\ arg1 = [tv_sec |-> 12, tv_nsec |-> 0 - 1000] =>
            out = [tv_sec |-> 11, tv_usec |-> 999999]

\* a negative nsec above -1000 truncates to zero microseconds
C15_Witness ==
    /\ fn = "CTimeVal(timespec)"
    /\ arg1 = [tv_sec |-> 33, tv_nsec |-> 0 - 999]
    /\ out = [tv_sec |-> 33, tv_usec |-> 0]

\* C16 as stated: whenever at least one operand of timespec_add /
\* timespec_subtract / timeval_add / timeval_subtract has its fractional
\* field outside [0, SCALE), the result's fractional field is outside
\* [0, SCALE).
C16_UnnormalizedOperand ==
    /\ (fn \in {"timespec_add", "timespec_subtract"}
            /\ (~ NsNormalized(arg1) \/ ~ NsNormalized(arg2))) =>
        ~ NsNormalized(out)
    /\ (fn \in {"timeval_add", "timeval_subtract"}
            /\ (~ UsNormalized(arg1) \/ ~ UsNormalized(arg2))) =>
        ~ UsNormalized(out)

\* C16, amended: with an operand whose fractional field is outside
\* [0, SCALE), the single carry of add leaves the result's field in range
\* exactly when the sum of the two fields lies in [0, 2 * SCALE), and the
\* single borrow of subtract exactly when their difference lies in
\* [-SCALE, SCALE); otherwise the result's field is out of range.
C16_SingleStep ==
    /\ (fn = "timespec_add"
            /\ (~ NsNormalized(arg1) \/ ~ NsNormalized(arg2))) =>
        (NsNormalized(out) <=>
            /\ 0 <= arg1.tv_nsec + arg2.tv_nsec
            /\ arg1.tv_nsec + arg2.tv_nsec - NS_IN_SECOND < NS_IN_SECOND)
    /\ (fn = "timespec_subtract"
            /\ (~ NsNormalized(arg1) \/ ~ NsNormalized(arg2))) =>
        (NsNormalized(out) <=>
            /\ 0 - NS_IN_SECOND <= arg1.tv_nsec - arg2.tv_nsec
            /\ arg1.tv_nsec - arg2.tv_nsec < NS_IN_SECOND)
    /\ (fn = "timeval_add"
            /\ (~ UsNormalized(arg1) \/ ~ UsNormalized(arg2))) =>
        (UsNormalized(out) <=>
            /\ 0 <= arg1.tv_usec + arg2.tv_usec
            /\ arg1.tv_usec + arg2.tv_usec < 2 * US_IN_SECOND)
    /\ (fn = "timeval_subtract"
            /\ (~ UsNormalized(arg1) \/ ~ UsNormalized(arg2))) =>
        (UsNormalized(out) <=>
            /\ 0 - US_IN_SECOND <= arg1.tv_usec - arg2.tv_usec
            /\ arg1.tv_usec - arg2.tv_usec < US_IN_SECOND)

\* an operand one SCALE too large: one carry is not enough
C16_Witness ==
    /\ fn = "timeval_add"
    /\ arg1 = [tv_sec |-> 0, tv_usec |-> 1000001]
    /\ arg2 = [tv_sec |-> 0, tv_usec |-> 999999]
    /\ out = [tv_sec |-> 1, tv_usec |-> 1000000]

\* C17: compound assignment agrees with the binary operators and leaves
\* the right operand unchanged.  For normalized objects, after l += r the
\* object l holds the former l + r and after l -= r the former l - r; an
\* object other than l keeps its value; this holds too when l and r are the
\* same object, where l -= l leaves (0, 0).
C17_CompoundAssignment ==
    /\ fn = "CTimeSpec+=" =>
        /\ out[arg2[1]] = CTimeSpec_plus(arg1[arg2[1]], arg1[arg2[2]])
        /\ \A n \in {"A", "B"} \ {arg2[1]} : out[n] = arg1[n]
    /\ fn = "CTimeSpec-=" =>
        /\ out[arg2[1]] = CTimeSpec_minus(arg1[arg2[1]], arg1[arg2[2]])
        /\ \A n \in {"A", "B"} \ {arg2[1]} : out[n] = arg1[n]
        /\ arg2[1] = arg2[2] => out[arg2[1]] = [tv_sec |-> 0, tv_nsec |-> 0]
    /\ fn = "CTimeVal+=" =>
        /\ out[arg2[1]] = CTimeVal_plus(arg1[arg2[1]], arg1[arg2[2]])
        /\ \A n \in {"V", "W"} \ {arg2[1]} : out[n] = arg1[n]
    /\ fn = "CTimeVal-=" =>
        /\ out[arg2[1]] = CTimeVal_minus(arg1[arg2[1]], arg1[arg2[2]])
        /\ \A n \in {"V", "W"} \ {arg2[1]} : out[n] = arg1[n]
        /\ arg2[1] = arg2[2] => out[arg2[1]] = [tv_sec |-> 0, tv_usec |-> 0]

\* A += A with a carry, as in TestAddCTimeSpec
C17_Witness ==
    /\ fn = "CTimeSpec+="
    /\ arg2 = <<"A", "A">>
    /\ arg1["A"] = [tv_sec |-> 1, tv_nsec |-> 999999999]
    /\ out["A"] = [tv_sec |-> 3, tv_nsec |-> 999999998]

\* the loops started on (sec, frac) and ending in (outsec, outfrac): c and b
\* bodies of the carry and of the borrow loop run
LoopsRunAsClaimed(sec, frac, scale, outsec, outfrac) ==
    LET c == CarryIterations(frac, scale)
        carried == CarryLoop(sec, frac, scale)
        b == BorrowIterations(carried[2], scale)
        q == frac \div scale
    IN  /\ c + b = (IF q < 0 THEN 0 - q ELSE q)
        /\ c = 0 \/ b = 0
        /\ c > 0 => carried[2] >= 0
        /\ b > 0 => outfrac < scale
        /\ outsec = sec + c - b

\* C18: normalization terminates for every input.  The two loops of
\* timespec_normalize, timeval_normalize and the normalizing constructors
\* run |floor(frac / SCALE)| iterations in total, each moving the whole
\* field by one, and at most one of the loops runs at all: the carry loop
\* never leaves frac negative and the borrow loop never leaves it at or
\* above SCALE.
C18_Termination ==
    /\ fn \in NsNormalizing =>
        LoopsRunAsClaimed(arg1.tv_sec, arg1.tv_nsec, NS_IN_SECOND,
                          out.tv_sec, out.tv_nsec)
    /\ fn \in UsNormalizing =>
        LoopsRunAsClaimed(arg1.tv_sec, arg1.tv_usec, US_IN_SECOND,
                          out.tv_sec, out.tv_usec)
    /\ fn = "CTimeSpec(timeval)" =>
        LoopsRunAsClaimed(arg1.tv_sec, arg1.tv_usec * 1000, NS_IN_SECOND,
                          out.tv_sec, out.tv_nsec)
    /\ fn = "CTimeVal(timespec)" =>
        LoopsRunAsClaimed(arg1.tv_sec, CDiv(arg1.tv_nsec, 1000),
                          US_IN_SECOND, out.tv_sec, out.tv_usec)

\* three iterations of the borrow loop
C18_Witness ==
    /\ fn = "timespec_normalize"
    /\ arg1 = [tv_sec |-> 0, tv_nsec |-> 0 - 2147483647]
    /\ out = [tv_sec |-> 0 - 3, tv_nsec |-> 852516353]
    /\ BorrowIterations(arg1.tv_nsec, NS_IN_SECOND) = 3

\* C19: normalization is a no-op on normalized values and is idempotent.
\* When 0 <= frac < SCALE the normalizing function returns (whole, frac)
\* unchanged, and for every input normalizing the result again returns the
\* same result.
C19_Idempotence ==
    /\ (fn \in NsNormalizing /\ NsNormalized(arg1)) => out = arg1
    /\ (fn \in UsNormalizing /\ UsNormalized(arg1)) => out = arg1
    /\ fn = "timespec_normalize" => timespec_normalize(out) = out
    /\ fn = "CTimeSpec(timespec)" => CTimeSpec_timespec(out) = out
    /\ fn = "CTimeSpec(sec,nsec)" =>
        CTimeSpec_sec_nsec(out.tv_sec, out.tv_nsec) = out
    /\ fn = "timeval_normalize" => timeval_normalize(out) = out
    /\ fn = "CTimeVal(timeval)" => CTimeVal_timeval(out) = out
    /\ fn = "CTimeVal(sec,usec)" =>
        CTimeVal_sec_usec(out.tv_sec, out.tv_usec) = out

\* a normalized value with frac = 0 passes through both loops untouched
C19_Witness ==
    /\ fn = "timespec_normalize"
    /\ arg1 = [tv_sec |-> 1, tv_nsec |-> 0]
    /\ out = [tv_sec |-> 1, tv_nsec |-> 0]

\* C20 as stated: for every raw timespec ts, CTimeVal(ts) equals the
\* CTimeVal constructed from ts normalized first, as CTimeSpec(ts) does.
C20_CommutesWithNormalization ==
    fn = "CTimeVal(timespec)" =>
        out = CTimeVal_timespec(CTimeSpec_timespec(arg1))

\* C20, amended: CTimeVal(ts) equals the CTimeVal of the normalized ts when
\* nsec >= 0 or nsec is a multiple of 1000; for a negative nsec that is not
\* a multiple of 1000 it is exactly one microsecond later, the division
\* truncating toward zero before the borrow.
C20_TruncationBeforeBorrow ==
    fn = "CTimeVal(timespec)" =>
        LET normalized_first == CTimeVal_timespec(CTimeSpec_timespec(arg1))
        IN  IF arg1.tv_nsec >= 0 \/ arg1.tv_nsec % 1000 = 0
            THEN out = normalized_first
            ELSE UsTotal(out) = UsTotal(normalized_first) + 1

\* one nanosecond below a whole second: truncated to the whole second,
\* where the normalized value converts to one microsecond less
C20_Witness ==
    /\ fn = "CTimeVal(timespec)"
    /\ arg1 = [tv_sec |-> 1, tv_nsec |-> 0 - 1]
    /\ out = [tv_sec |-> 1, tv_usec |-> 0]
    /\ CTimeVal_timespec(CTimeSpec_timespec(arg1)) =
        [tv_sec |-> 0, tv_usec |-> 999999]
\* C21: add and subtract preserve the total sub-unit count for all inputs,
\* normalized or not.  The result r of timespec_add / timeval_add has
\* r.whole * SCALE + r.frac equal to the sum of the operands' totals, the
\* result of timespec_subtract / timeval_subtract equal to their
\* difference; add moves the whole field by 0 or +1 only (it never
\* borrows) and subtract by 0 or -1 only (it never carries).
C21_TotalPreserved ==
    /\ fn = "timespec_add" =>
        /\ NsTotal(out) = LimbAdd(NsTotal(arg1), NsTotal(arg2))
        /\ out.tv_sec - (arg1.tv_sec + arg2.tv_sec) \in {0, 1}
        /\ out.tv_sec = arg1.tv_sec + arg2.tv_sec =>
            out.tv_nsec = arg1.tv_nsec + arg2.tv_nsec
    /\ fn = "timespec_subtract" =>
        /\ NsTotal(out) = LimbSub(NsTotal(arg1), NsTotal(arg2))
        /\ (arg1.tv_sec - arg2.tv_sec) - out.tv_sec \in {0, 1}
        /\ out.tv_sec = arg1.tv_sec - arg2.tv_sec =>
            out.tv_nsec = arg1.tv_nsec - arg2.tv_nsec
    /\ fn = "timeval_add" =>
        /\ UsTotal(out) = UsTotal(arg1) + UsTotal(arg2)
        /\ out.tv_sec - (arg1.tv_sec + arg2.tv_sec) \in {0, 1}
        /\ out.tv_sec = arg1.tv_sec + arg2.tv_sec =>
            out.tv_usec = arg1.tv_usec + arg2.tv_usec
    /\ fn = "timeval_subtract" =>
        /\ UsTotal(out) = UsTotal(arg1) - UsTotal(arg2)
        /\ (arg1.tv_sec - arg2.tv_sec) - out.tv_sec \in {0, 1}
        /\ out.tv_sec = arg1.tv_sec - arg2.tv_sec =>
            out.tv_usec = arg1.tv_usec - arg2.tv_usec

\* an unnormalized minuend: the difference is at or above SCALE and
\* timeval_subtract leaves it there without carrying
C21_Witness ==
    /\ fn = "timeval_subtract"
    /\ arg1 = [tv_sec |-> 0, tv_usec |-> 1000001]
    /\ arg2 = [tv_sec |-> 0, tv_usec |-> 0]
    /\ out = [tv_sec |-> 0, tv_usec |-> 1000001]
\* C22: timespec_from_ms / timeval_from_ms take a signed int.  For a
\* negative ms that is not a multiple of 1000 the result's fractional field
\* lies in (-SCALE, 0), so the result is not normalized, while
\* whole * SCALE + frac equals ms * (SCALE / 1000); normalizing the result
\* gives the normalized pair of the same value (compared in whole
\* milliseconds, the normalized total of the most negative ms exceeding 32
\* bits in sub-units).
C22_NegativeMilliseconds ==
    /\ (fn = "timespec_from_ms" /\ arg1 < 0 /\ arg1 % 1000 # 0) =>
        /\ 0 - NS_IN_SECOND < out.tv_nsec /\ out.tv_nsec < 0
        /\ ~ NsNormalized(out)
        /\ NsTotal(out) = <<arg1 * 1000, 0>>
        /\ NsNormalized(timespec_normalize(out))
        /\ LET n == timespec_normalize(out)
           IN  /\ n.tv_sec * MS_IN_SECOND + (n.tv_nsec \div NS_IN_MS) = arg1
               /\ n.tv_nsec % NS_IN_MS = 0
    /\ (fn = "timeval_from_ms" /\ arg1 < 0 /\ arg1 % 1000 # 0) =>
        /\ 0 - US_IN_SECOND < out.tv_usec /\ out.tv_usec < 0
        /\ ~ UsNormalized(out)
        /\ UsTotal(out) = arg1 * (US_IN_SECOND \div 1000)
        /\ UsNormalized(timeval_normalize(out))
        /\ LET n == timeval_normalize(out)
           IN  /\ n.tv_sec * MS_IN_SECOND + (n.tv_usec \div US_IN_MS) = arg1
               /\ n.tv_usec % US_IN_MS = 0

\* minus one and a half seconds
C22_Witness ==
    /\ fn = "timespec_from_ms"
    /\ arg1 = 0 - 1500
    /\ out = [tv_sec |-> 0 - 1, tv_nsec |-> 0 - 500000000]
    /\ timespec_normalize(out) = [tv_sec |-> 0 - 2, tv_nsec |-> 500000000]
\* the range of a 32-bit signed long
InInt32(x) == 0 - 2147483647 - 1 <= x /\ x <= 2147483647

\* C23: no fractional-field intermediate overflows a 32-bit signed long on
\* normalized inputs.  The raw fractional sum of add lies in
\* [0, 2 * SCALE - 2] and the result's field is that sum or that sum less
\* SCALE; the raw difference of subtract lies in (-SCALE, SCALE); the
\* product (ms % 1000) * (SCALE / 1000) of the milliseconds functions and
\* constructors is at most 999 * (SCALE / 1000) in magnitude; the product
\* usec * 1000 of the microsecond-to-nanosecond conversions lies in
\* [0, 999999000]; all of them within [-2^31, 2^31 - 1].
C23_NoOverflow ==
    /\ (fn \in {"timespec_add", "CTimeSpec+"}
            /\ NsNormalized(arg1) /\ NsNormalized(arg2)) =>
        LET raw == arg1.tv_nsec + arg2.tv_nsec
        IN  /\ 0 <= raw /\ raw <= 2 * (NS_IN_SECOND - 1)
            /\ InInt32(raw)
            /\ out.tv_nsec \in {raw, raw - NS_IN_SECOND}
    /\ (fn \in {"timeval_add", "CTimeVal+"}
            /\ UsNormalized(arg1) /\ UsNormalized(arg2)) =>
        LET raw == arg1.tv_usec + arg2.tv_usec
        IN  /\ 0 <= raw /\ raw <= 2 * (US_IN_SECOND - 1)
            /\ InInt32(raw)
            /\ out.tv_usec \in {raw, raw - US_IN_SECOND}
    /\ (fn \in {"timespec_subtract", "CTimeSpec-"}
            /\ NsNormalized(arg1) /\ NsNormalized(arg2)) =>
        LET raw == arg1.tv_nsec - arg2.tv_nsec
        IN  /\ 0 - NS_IN_SECOND < raw /\ raw < NS_IN_SECOND
            /\ InInt32(raw)
            /\ out.tv_nsec \in {raw, raw + NS_IN_SECOND}
    /\ (fn \in {"timeval_subtract", "CTimeVal-"}
            /\ UsNormalized(arg1) /\ UsNormalized(arg2)) =>
        LET raw == arg1.tv_usec - arg2.tv_usec
        IN  /\ 0 - US_IN_SECOND < raw /\ raw < US_IN_SECOND
            /\ InInt32(raw)
            /\ out.tv_usec \in {raw, raw + US_IN_SECOND}
    /\ fn \in {"timespec_from_ms", "CTimeSpec(ms)"} =>
        /\ 0 - 999 * NS_IN_MS <= out.tv_nsec
        /\ out.tv_nsec <= 999 * NS_IN_MS
        /\ InInt32(out.tv_nsec)
    /\ fn \in {"timeval_from_ms", "CTimeVal(ms)"} =>
        /\ 0 - 999 * US_IN_MS <= out.tv_usec
        /\ out.tv_usec <= 999 * US_IN_MS
        /\ InInt32(out.tv_usec)
    /\ (fn \in {"timeval_to_timespec", "CTimeSpec(timeval)"}
            /\ UsNormalized(arg1)) =>
        /\ out.tv_nsec = arg1.tv_usec * 1000
        /\ 0 <= out.tv_nsec /\ out.tv_nsec <= 999999000
        /\ InInt32(out.tv_nsec)

\* the largest raw sum of two normalized nanosecond fields
C23_Witness ==
    /\ fn = "timespec_add"
    /\ arg1 = [tv_sec |-> 0, tv_nsec |-> 999999999]
    /\ arg2 = [tv_sec |-> 0, tv_nsec |-> 999999999]
    /\ arg1.tv_nsec + arg2.tv_nsec = 1999999998
    /\ out = [tv_sec |-> 1, tv_nsec |-> 999999998]
====
